---- MODULE Spec2Model ----
(***************************************************************************)
(* Model of the OpenID 2.0 consumer of github.com/shuaiming/openid:        *)
(* openid.go (New, CheckIDSetup, IDRes, associate) and login/id.go         *)
(* (ServeHTTP, GetUser).                                                   *)
(*                                                                         *)
(* Text is a sequence of tokens (a token stands for a run of ordinary      *)
(* characters; ",", ":" and "\n" are tokens of their own), so splitting,   *)
(* concatenating and parsing are computed, not assumed.                    *)
(***************************************************************************)
EXTENDS Integers, Sequences, FiniteSets, TLC

\* ------------------------------------------------------------------ bounds
MaxTime == 2          \* the clock runs 0..MaxTime
MaxHandshakes == 2    \* at most this many http.Get calls are issued
NumProcs == 2         \* concurrent request goroutines

Procs == 1..NumProcs

\* ------------------------------------------------------------------ text
Comma == ","
Colon == ":"
NL == "\n"
Empty == <<>>

RECURSIVE SplitFrom(_, _, _, _, _)
SplitFrom(s, sep, i, cur, acc) ==
  IF i > Len(s) THEN Append(acc, cur)
  ELSE IF s[i] = sep THEN SplitFrom(s, sep, i + 1, Empty, Append(acc, cur))
  ELSE SplitFrom(s, sep, i + 1, Append(cur, s[i]), acc)

\* strings.Split(s, ","): the pieces between commas; one empty piece for "".
Split(s) == SplitFrom(s, Comma, 1, Empty, <<>>)

\* 0 when tok does not occur in s, else the index of its first occurrence.
IndexOf(s, tok) ==
  IF \E i \in 1..Len(s) : s[i] = tok
  THEN CHOOSE i \in 1..Len(s) : s[i] = tok /\ \A j \in 1..(i - 1) : s[j] # tok
  ELSE 0

\* strings.HasPrefix
HasPrefix(s, pre) == Len(pre) <= Len(s) /\ SubSeq(s, 1, Len(pre)) = pre

\* Go's map read: the zero value "" for a key that is not there.
Lookup(m, k) == IF k \in DOMAIN m THEN m[k] ELSE Empty

\* ------------------------------------------------------------------ association.go
hmacSHA256 == <<"HMAC-SHA256">>

\* The MAC of msg under key, base64-encoded: one token, equal to another MAC
\* exactly when key and message are equal (no collisions).
HMAC(key, msg) == [key |-> key, msg |-> msg]

RECURSIVE KeyValueForm(_, _, _)
KeyValueForm(params, signed, i) ==
  IF i > Len(signed) THEN Empty
  ELSE signed[i] \o <<Colon>> \o Lookup(params, signed[i]) \o <<NL>>
       \o KeyValueForm(params, signed, i + 1)

signErr(a) == a.Type # hmacSHA256

\* Association.sign: "key:value\n" for each signed name in order, MAC'ed with
\* the association's secret.
sign(a, params, signed) == <<HMAC(a.Secret, KeyValueForm(params, signed, 1))>>

\* ------------------------------------------------------------------ wire codec
OpenIDPrefix == "openid."

\* encodeHTTP: every key gets the "openid." prefix.
encodeHTTP(values) ==
  [k \in {<<OpenIDPrefix>> \o n : n \in DOMAIN values} |-> values[Tail(k)]]

\* parseHTTP: the keys that carry the "openid." prefix, without it; the other
\* keys of the query are dropped.
parseHTTP(query) ==
  [n \in {Tail(k) : k \in {q \in DOMAIN query : HasPrefix(q, <<OpenIDPrefix>>)}}
     |-> query[<<OpenIDPrefix>> \o n]]

\* The lines of a key-value body, leading and trailing blank lines dropped.
RECURSIVE TrimBlank(_)
TrimBlank(ls) ==
  IF ls = <<>> THEN ls
  ELSE IF Head(ls) = Empty THEN TrimBlank(Tail(ls))
  ELSE IF ls[Len(ls)] = Empty THEN TrimBlank(SubSeq(ls, 1, Len(ls) - 1))
  ELSE ls

KVLines(body) == TrimBlank(SplitFrom(body, NL, 1, Empty, <<>>))

KVKey(line) == SubSeq(line, 1, IndexOf(line, Colon) - 1)
KVValue(line) == SubSeq(line, IndexOf(line, Colon) + 1, Len(line))

\* parseKeyValue: one key:value pair per line (split at the first colon, a later
\* line wins over an earlier one with the same key); an error when a line has
\* no colon.
parseKeyValue(body) ==
  LET ls == KVLines(body)
      last(k) == CHOOSE i \in 1..Len(ls) :
                   /\ KVKey(ls[i]) = k
                   /\ \A j \in (i + 1)..Len(ls) : KVKey(ls[j]) # k
  IN IF \E i \in 1..Len(ls) : IndexOf(ls[i], Colon) = 0
     THEN [err |-> TRUE, values |-> <<>>]
     ELSE [err |-> FALSE,
           values |-> [k \in {KVKey(ls[i]) : i \in 1..Len(ls)} |-> KVValue(ls[last(k)])]]

\* ------------------------------------------------------------------ stdlib conversions
\* base64.StdEncoding.DecodeString on the texts the model uses: the empty text
\* decodes to no bytes, text outside the table is not base64.
Base64Table ==
  (Empty :> Empty) @@ (<<"a2V5MQ==">> :> <<"key1">>) @@ (<<"a2V5Mg==">> :> <<"key2">>)

DecodeString(t) ==
  IF t \in DOMAIN Base64Table THEN [err |-> FALSE, bytes |-> Base64Table[t]]
  ELSE [err |-> TRUE, bytes |-> Empty]

\* A Go int of a 64-bit build: four 16-bit limbs, the most significant first,
\* in two's complement.
Limb == 65536

\* The int of a small number.
Word(n) == IF n >= 0 THEN <<0, 0, 0, n>> ELSE <<Limb - 1, Limb - 1, Limb - 1, Limb + n>>

\* x * k in int arithmetic, for a small positive k: the carry out of the top
\* limb is lost.
MulWrap(x, k) ==
  LET p4 == x[4] * k
      p3 == x[3] * k + p4 \div Limb
      p2 == x[2] * k + p3 \div Limb
      p1 == x[1] * k + p2 \div Limb
  IN <<p1 % Limb, p2 % Limb, p3 % Limb, p4 % Limb>>

\* strconv.Atoi on the texts the model uses: decimal numerals with an optional
\* sign, up to the largest int (2^63 - 1); the empty text, a numeral out of the
\* range of int and anything else is an error.
AtoiTable ==
  (<<"0">> :> Word(0)) @@ (<<"1">> :> Word(1)) @@ (<<"2">> :> Word(2))
  @@ (<<"-1">> :> Word(-1))
  @@ (<<"36028797018963969">> :> <<128, 0, 0, 1>>)
  @@ (<<"9223372036854775807">> :> <<32767, 65535, 65535, 65535>>)

Atoi(t) ==
  IF t \in DOMAIN AtoiTable THEN [err |-> FALSE, n |-> AtoiTable[t]]
  ELSE [err |-> TRUE, n |-> Word(0)]

\* url.QueryEscape, token by token.
EscapeToken(c) ==
  CASE c = ":" -> "%3A"
    [] c = "/" -> "%2F"
    [] c = "," -> "%2C"
    [] OTHER -> c

QueryEscape(t) == [i \in 1..Len(t) |-> EscapeToken(t[i])]

\* ------------------------------------------------------------------ openid.go constants
Namespace == <<"http", ":", "/", "/", "specs.openid.net", "/", "auth", "/", "2.0">>
ClaimedID == Namespace \o <<"/", "identifier">>
Identity == Namespace \o <<"/", "identifier_select">>
NSSreg == <<"http", ":", "/", "/", "openid.net", "/", "extensions", "/", "sreg", "/", "1.1">>

\* Go error values, told apart by the statement that makes them.
ErrNone == "nil"
ErrAssociate == "associate with OpenID Server failed"
ErrNoAssociation == "no Association found"
ErrSign == "sign failed"
ErrVerify == "verify singed failed"
ErrPanic == "panic: interface conversion"

\* ------------------------------------------------------------------ login/id.go constants
urlKeyRedirect == <<"redirect">>
sesKeyOpenID == "github.com/shuaiming/openid/login.User"
sesKeyRedirect == "github.com/shuaiming/openid/login.Redirect"

\* The arguments of login.New in the modelled deployment.
prefix == <<"/openid">>
realm == <<"https", ":", "/", "/", "localhost">>
OP1 == <<"https", ":", "/", "/", "op1.example", "/", "openid">>
OP2 == <<"https", ":", "/", "/", "op2.example", "/", "openid">>
endpoint == OP1

loginURL == prefix \o <<"/login">>
logoutURL == prefix \o <<"/logout">>
verifyURL == prefix \o <<"/verify">>

\* ------------------------------------------------------------------ state
VARIABLES
  store,       \* o.assocs.store: the map from endpoint to Association
  session,     \* the session of the requests: the map from session key to value
  now,         \* time.Now(), in seconds
  pc,          \* per goroutine: "idle", or "http" while inside http.Get
  local,       \* per goroutine inside associate: opEndpoint, who called, the lock
               \* of the store it holds and the Association it has built
  handshakes,  \* how many http.Get calls associate has issued so far
  ret          \* the call that returned last: its input and what it returned

vars == <<store, session, now, pc, local, handshakes, ret>>

NoQuery == [k \in {} |-> Empty]
NoRequest == [path |-> Empty, method |-> "", hasSession |-> FALSE, query |-> NoQuery]

NoLocal == [ep |-> Empty, cb |-> Empty, via |-> "none", lock |-> "none", assoc |-> {}]

\* What a call leaves behind. Optional values are sets of at most one element.
NoRet ==
  [op |-> "none", at |-> 0, err |-> ErrNone, fresh |-> FALSE, req |-> NoRequest,
   ep |-> Empty, cb |-> Empty, resp |-> {},
   assoc |-> {}, url |-> Empty, claims |-> {}, next |-> 0, status |-> 0,
   location |-> Empty]

\* ------------------------------------------------------------------ associations
ZeroAssociation ==
  [Endpoint |-> Empty, Handle |-> Empty, Secret |-> Empty, Type |-> Empty, Expires |-> 0]

\* associations.get: the entry stored for the endpoint, if any. Expires is not
\* looked at.
get(st, ep) ==
  IF ep \in DOMAIN st THEN [ok |-> TRUE, assoc |-> st[ep]]
  ELSE [ok |-> FALSE, assoc |-> ZeroAssociation]

\* associations.set: one entry per endpoint, the new one replaces the old.
set(st, ep, a) == [k \in DOMAIN st \cup {ep} |-> IF k = ep THEN a ELSE st[k]]

\* ------------------------------------------------------------------ openid.go
\* A time.Duration (nanoseconds in an int64) in the model's unit, for the
\* durations the model meets: whole seconds within a few ticks of the clock.
Seconds(d) == CHOOSE sec \in -4..4 : MulWrap(MulWrap(MulWrap(Word(sec), 1000), 1000), 1000) = d

\* time.Duration(expiresIn * 1000 * 1000 * 1000): three multiplications in int,
\* each of which may wrap.
expiresDu(expiresIn) == Seconds(MulWrap(MulWrap(MulWrap(expiresIn, 1000), 1000), 1000))

\* associate, lines 143-170: from the answer of http.Get to the Association,
\* or nil. resp.err is the error of http.Get, resp.readErr that of ReadAll;
\* resp.status is carried by the response and never read.
handshake(opEndpoint, resp, t) ==
  LET kv == parseKeyValue(resp.body)
      secret == DecodeString(Lookup(kv.values, <<"mac_key">>))
      expiresIn == Atoi(Lookup(kv.values, <<"expires_in">>))
  IN IF resp.err \/ resp.readErr \/ kv.err \/ secret.err \/ expiresIn.err THEN {}
     ELSE {[Endpoint |-> opEndpoint,
            Handle |-> Lookup(kv.values, <<"assoc_handle">>),
            Secret |-> secret.bytes,
            Type |-> Lookup(kv.values, <<"assoc_type">>),
            Expires |-> t + expiresDu(expiresIn.n)]}

\* url.Values.Encode: key=value pairs, joined by "&", keys escaped and sorted.
\* The order is that of the keys CheckIDSetup sends.
SortedKeys ==
  << <<"assoc_handle">>, <<"claimed_id">>, <<"identity">>, <<"mode">>, <<"ns">>,
     <<"ns.sreg">>, <<"return_to">>, <<"sreg.required">> >>

RECURSIVE EncodeFrom(_, _)
EncodeFrom(v, i) ==
  IF i > Len(SortedKeys) THEN Empty
  ELSE LET k == <<OpenIDPrefix>> \o SortedKeys[i]
           rest == EncodeFrom(v, i + 1)
       IN IF k \notin DOMAIN v THEN rest
          ELSE QueryEscape(k) \o <<"=">> \o QueryEscape(v[k])
               \o (IF rest = Empty THEN Empty ELSE <<"&">> \o rest)

Encode(v) == EncodeFrom(v, 1)

\* The redirect URL with callbackPrefix itself as return_to.
authURLBareCallback(opEndpoint, callbackPrefix, assoc) ==
  LET values ==
        (<<"mode">> :> <<"checkid_setup">>)
        @@ (<<"ns">> :> Namespace)
        @@ (<<"assoc_handle">> :> assoc.Handle)
        @@ (<<"return_to">> :> callbackPrefix)
        @@ (<<"claimed_id">> :> ClaimedID)
        @@ (<<"identity">> :> Identity)
        @@ (<<"ns.sreg">> :> NSSreg)
        @@ (<<"sreg.required">> :> <<"nickname", ",", "email", ",", "fullname">>)
  IN opEndpoint \o <<"?">> \o Encode(encodeHTTP(values))

\* CheckIDSetup, lines 83-98: the redirect URL for an association.
authURL(opEndpoint, callbackPrefix, assoc) ==
  LET values ==
        (<<"mode">> :> <<"checkid_setup">>)
        @@ (<<"ns">> :> Namespace)
        @@ (<<"assoc_handle">> :> assoc.Handle)
        @@ (<<"return_to">> :> realm \o <<"/">> \o callbackPrefix)
        @@ (<<"claimed_id">> :> ClaimedID)
        @@ (<<"identity">> :> Identity)
        @@ (<<"ns.sreg">> :> NSSreg)
        @@ (<<"sreg.required">> :> <<"nickname", ",", "email", ",", "fullname">>)
  IN opEndpoint \o <<"?">> \o Encode(encodeHTTP(values))

\* IDRes without the comparison of the signatures.
IDResNoCompare(st, query) ==
  LET user == parseHTTP(query)
      g == get(st, Lookup(user, <<"op_endpoint">>))
  IN IF ~g.ok THEN [claims |-> {}, err |-> ErrNoAssociation]
     ELSE IF signErr(g.assoc) THEN [claims |-> {}, err |-> ErrSign]
     ELSE [claims |-> {user}, err |-> ErrNone]

\* IDRes going on with the zero Association when get finds none.
IDResNoOkCheck(st, query) ==
  LET user == parseHTTP(query)
      g == get(st, Lookup(user, <<"op_endpoint">>))
  IN IF signErr(g.assoc) THEN [claims |-> {}, err |-> ErrSign]
     ELSE IF sign(g.assoc, user, Split(Lookup(user, <<"signed">>))) # Lookup(user, <<"sig">>)
       THEN [claims |-> {}, err |-> ErrVerify]
     ELSE [claims |-> {user}, err |-> ErrNone]

\* IDRes refusing a callback whose assoc_handle is not the stored one.
IDResByHandle(st, query) ==
  LET user == parseHTTP(query)
      g == get(st, Lookup(user, <<"op_endpoint">>))
  IN IF ~g.ok THEN [claims |-> {}, err |-> ErrNoAssociation]
     ELSE IF signErr(g.assoc) THEN [claims |-> {}, err |-> ErrSign]
     ELSE IF \/ sign(g.assoc, user, Split(Lookup(user, <<"signed">>))) # Lookup(user, <<"sig">>)
             \/ g.assoc.Handle # Lookup(user, <<"assoc_handle">>)
       THEN [claims |-> {}, err |-> ErrVerify]
     ELSE [claims |-> {user}, err |-> ErrNone]

\* IDRes: the decoded fields of the callback, or an error.
IDRes(st, query) ==
  LET user == parseHTTP(query)
      g == get(st, Lookup(user, <<"op_endpoint">>))
  IN IF ~g.ok THEN [claims |-> {}, err |-> ErrNoAssociation]
     ELSE IF signErr(g.assoc) THEN [claims |-> {}, err |-> ErrSign]
     ELSE IF sign(g.assoc, user, Split(Lookup(user, <<"signed">>))) # Lookup(user, <<"sig">>)
       THEN [claims |-> {}, err |-> ErrVerify]
     ELSE [claims |-> {user}, err |-> ErrNone]

\* ------------------------------------------------------------------ sessions
\* A session holds interface{} values: a value together with its dynamic type.
StringType == "string"
MapType == "map[string]string"

AsString(v) == [type |-> StringType, val |-> v]
AsMap(v) == [type |-> MapType, val |-> v]

Store(s, key, value) == [k \in DOMAIN s \cup {key} |-> IF k = key THEN value ELSE s[k]]
Delete(s, key) == [k \in DOMAIN s \ {key} |-> s[k]]

\* GetUser: the user of the session, if any; the type assertion panics on a
\* value of another type.
GetUser(s) ==
  IF sesKeyOpenID \notin DOMAIN s THEN [user |-> {}, ok |-> FALSE, panic |-> FALSE]
  ELSE IF s[sesKeyOpenID].type # MapType THEN [user |-> {}, ok |-> FALSE, panic |-> TRUE]
  ELSE [user |-> {s[sesKeyOpenID].val}, ok |-> TRUE, panic |-> FALSE]

\* ------------------------------------------------------------------ actions
Init ==
  /\ store = [e \in {} |-> ZeroAssociation]
  /\ session = [k \in {} |-> Empty]
  /\ now = 0
  /\ pc = [p \in Procs |-> "idle"]
  /\ local = [p \in Procs |-> NoLocal]
  /\ handshakes = 0
  /\ ret = NoRet

\* Time passes.
Tick ==
  /\ now < MaxTime
  /\ now' = now + 1
  /\ UNCHANGED <<store, session, pc, local, handshakes, ret>>

\* What CheckIDSetup returns for the association (or nil) that associate gave
\* it, and what the login branch of ServeHTTP then answers.
AfterAssociate(via, req, opEndpoint, cb, fresh, resp, assoc) ==
  LET ok == assoc # {}
      url == IF ok THEN authURL(opEndpoint, cb, CHOOSE a \in assoc : TRUE) ELSE Empty
  IN [NoRet EXCEPT !.at = now, !.op = via, !.req = req, !.ep = opEndpoint,
                   !.cb = cb, !.fresh = fresh, !.resp = resp, !.assoc = assoc, !.url = url,
                   !.err = IF ok THEN ErrNone ELSE ErrAssociate,
                   !.status = IF ok /\ via = "login" THEN 302 ELSE 0,
                   !.location = IF ok /\ via = "login" THEN url ELSE Empty]

\* associate that does not look into the cache.
BeginAssociateNoCache(p, via, req, opEndpoint, cb) ==
  /\ handshakes < MaxHandshakes
  /\ handshakes' = handshakes + 1
  /\ pc' = [pc EXCEPT ![p] = "http"]
  /\ local' = [local EXCEPT ![p] = [NoLocal EXCEPT !.ep = opEndpoint, !.cb = cb, !.via = via]]
  /\ UNCHANGED <<store, ret>>

\* associate up to http.Get: a cached association is returned at once,
\* otherwise the goroutine goes into the network call.
BeginAssociate(p, via, req, opEndpoint, cb) ==
  LET g == get(store, opEndpoint)
  IN IF g.ok
     THEN /\ ret' = AfterAssociate(via, req, opEndpoint, cb, FALSE, {}, {g.assoc})
          /\ UNCHANGED <<store, pc, local, handshakes>>
     ELSE /\ handshakes < MaxHandshakes
          /\ handshakes' = handshakes + 1
          /\ pc' = [pc EXCEPT ![p] = "http"]
          /\ local' = [local EXCEPT ![p] = [NoLocal EXCEPT !.ep = opEndpoint, !.cb = cb, !.via = via]]
          /\ UNCHANGED <<store, ret>>

\* A direct call of the library: CheckIDSetup(opEndpoint, callbackPrefix).
CallCheckIDSetup(p, opEndpoint, cb) ==
  /\ pc[p] = "idle"
  /\ BeginAssociate(p, "CheckIDSetup", NoRequest, opEndpoint, cb)
  /\ UNCHANGED <<session, now>>

\* The rest of associate keeping the entry another handshake stored meanwhile.
HttpGetReturnsKeepFirst(p, resp) ==
  /\ pc[p] = "http"
  /\ LET l == local[p]
          assoc == handshake(l.ep, resp, now)
     IN /\ store' = IF assoc = {} \/ l.ep \in DOMAIN store THEN store
                     ELSE set(store, l.ep, CHOOSE a \in assoc : TRUE)
        /\ ret' = AfterAssociate(l.via, NoRequest, l.ep, l.cb, TRUE, {resp}, assoc)
  /\ pc' = [pc EXCEPT ![p] = "idle"]
  /\ local' = [local EXCEPT ![p] = NoLocal]
  /\ UNCHANGED <<session, now, handshakes>>

\* http.Get returns inside associate: the rest of associate, of CheckIDSetup
\* and of its caller.
HttpGetReturns(p, resp) ==
  /\ pc[p] = "http"
  /\ LET l == local[p]
          assoc == handshake(l.ep, resp, now)
     IN /\ store' = IF assoc = {} THEN store
                     ELSE set(store, l.ep, CHOOSE a \in assoc : TRUE)
        /\ ret' = AfterAssociate(l.via, NoRequest, l.ep, l.cb, TRUE, {resp}, assoc)
  /\ pc' = [pc EXCEPT ![p] = "idle"]
  /\ local' = [local EXCEPT ![p] = NoLocal]
  /\ UNCHANGED <<session, now, handshakes>>

\* ------------------------------------------------------------------ associate, lock by lock
\* The store's reader-writer lock: who holds it is kept with the goroutines.
WriteLocked == \E q \in Procs : local[q].lock = "write"
Locked == \E q \in Procs : local[q].lock # "none"

\* CheckIDSetup calls associate, associate calls get (line 130): get takes the
\* read lock.
GetLocks(p, opEndpoint, cb) ==
  /\ pc[p] = "idle"
  /\ ~WriteLocked
  /\ handshakes < MaxHandshakes \/ opEndpoint \in DOMAIN store
  /\ pc' = [pc EXCEPT ![p] = "get"]
  /\ local' = [local EXCEPT ![p] = [NoLocal EXCEPT !.ep = opEndpoint, !.cb = cb,
                                                    !.via = "CheckIDSetup", !.lock = "read"]]
  /\ UNCHANGED <<store, session, now, handshakes, ret>>

\* get returning with the read lock still held on a miss.
GetReturnsKeepsLock(p) ==
  /\ pc[p] = "get"
  /\ LET l == local[p]
         g == get(store, l.ep)
     IN IF g.ok
        THEN /\ ret' = AfterAssociate(l.via, NoRequest, l.ep, l.cb, FALSE, {}, {g.assoc})
             /\ pc' = [pc EXCEPT ![p] = "idle"]
             /\ local' = [local EXCEPT ![p] = NoLocal]
             /\ UNCHANGED handshakes
        ELSE /\ handshakes' = handshakes + 1
             /\ pc' = [pc EXCEPT ![p] = "http"]
             /\ UNCHANGED <<local, ret>>
  /\ UNCHANGED <<store, session, now>>

\* get reads the map, releases the read lock and returns (lines 130-138): a
\* cached association ends the call, otherwise the goroutine goes into
\* http.Get.
GetReturns(p) ==
  /\ pc[p] = "get"
  /\ LET l == local[p]
         g == get(store, l.ep)
     IN IF g.ok
        THEN /\ ret' = AfterAssociate(l.via, NoRequest, l.ep, l.cb, FALSE, {}, {g.assoc})
             /\ pc' = [pc EXCEPT ![p] = "idle"]
             /\ local' = [local EXCEPT ![p] = NoLocal]
             /\ UNCHANGED handshakes
        ELSE /\ handshakes' = handshakes + 1
             /\ pc' = [pc EXCEPT ![p] = "http"]
             /\ local' = [local EXCEPT ![p].lock = "none"]
             /\ UNCHANGED ret
  /\ UNCHANGED <<store, session, now>>

\* http.Get returns (lines 138-170): nil on a failure, else the Association is
\* built and set is about to be called.
HttpGetDone(p, resp) ==
  /\ pc[p] = "http"
  /\ LET l == local[p]
         assoc == handshake(l.ep, resp, now)
     IN IF assoc = {}
        THEN /\ ret' = AfterAssociate(l.via, NoRequest, l.ep, l.cb, TRUE, {resp}, assoc)
             /\ pc' = [pc EXCEPT ![p] = "idle"]
             /\ local' = [local EXCEPT ![p] = NoLocal]
        ELSE /\ pc' = [pc EXCEPT ![p] = "built"]
             /\ local' = [local EXCEPT ![p].assoc = assoc]
             /\ UNCHANGED ret
  /\ UNCHANGED <<store, session, now, handshakes>>

\* set (line 173) takes the write lock.
SetLocks(p) ==
  /\ pc[p] = "built"
  /\ ~Locked
  /\ pc' = [pc EXCEPT ![p] = "set"]
  /\ local' = [local EXCEPT ![p].lock = "write"]
  /\ UNCHANGED <<store, session, now, handshakes, ret>>

\* set writes the entry, releases the write lock and returns; associate and
\* CheckIDSetup return (lines 173-175, 83-98).
SetReturns(p) ==
  /\ pc[p] = "set"
  /\ LET l == local[p]
     IN /\ store' = set(store, l.ep, CHOOSE a \in l.assoc : TRUE)
        /\ ret' = AfterAssociate(l.via, NoRequest, l.ep, l.cb, TRUE, {}, l.assoc)
  /\ pc' = [pc EXCEPT ![p] = "idle"]
  /\ local' = [local EXCEPT ![p] = NoLocal]
  /\ UNCHANGED <<session, now, handshakes>>

\* IDRes dropping the association it has verified a callback with.
IDResLockedConsumes(p, query) ==
  /\ ~WriteLocked
  /\ pc[p] = "idle"
  /\ LET res == IDRes(store, query)
         ep == Lookup(parseHTTP(query), <<"op_endpoint">>)
     IN /\ ret' = [NoRet EXCEPT !.at = now, !.op = "IDRes",
                                !.req = [NoRequest EXCEPT !.query = query],
                                !.ep = ep, !.err = res.err, !.claims = res.claims]
        /\ store' = IF res.err = ErrNone THEN [k \in DOMAIN store \ {ep} |-> store[k]]
                    ELSE store
  /\ UNCHANGED <<session, now, pc, local, handshakes>>

\* IDRes (lines 102-120): its get waits while the write lock is held.
IDResLocked(p, query) ==
  /\ ~WriteLocked
  /\ pc[p] = "idle"
  /\ LET res == IDRes(store, query)
     IN ret' = [NoRet EXCEPT !.at = now, !.op = "IDRes", !.req = [NoRequest EXCEPT !.query = query],
                             !.ep = Lookup(parseHTTP(query), <<"op_endpoint">>),
                             !.err = res.err, !.claims = res.claims]
  /\ UNCHANGED <<store, session, now, pc, local, handshakes>>

\* A direct call of the library: IDRes(r).
CallIDRes(p, query) ==
  /\ pc[p] = "idle"
  /\ LET res == IDRes(store, query)
     IN ret' = [NoRet EXCEPT !.at = now, !.op = "IDRes", !.req = [NoRequest EXCEPT !.query = query],
                             !.ep = Lookup(parseHTTP(query), <<"op_endpoint">>),
                             !.err = res.err, !.claims = res.claims]
  /\ UNCHANGED <<store, session, now, pc, local, handshakes>>

\* The branch a request takes when the method is not looked at.
RouteAnyMethod(r) ==
  IF ~HasPrefix(r.path, prefix) THEN "next"
  ELSE IF ~r.hasSession THEN "next"
  ELSE IF r.path = loginURL THEN "login"
  ELSE IF r.path = logoutURL THEN "logout"
  ELSE IF r.path = verifyURL THEN "verify"
  ELSE "next"

\* ServeHTTP, lines 50-72 and 117-118: which branch a request takes.
Route(r) ==
  IF ~HasPrefix(r.path, prefix) THEN "next"
  ELSE IF r.method # "GET" /\ r.method # "HEAD" THEN "next"
  ELSE IF ~r.hasSession THEN "next"
  ELSE IF r.path = loginURL THEN "login"
  ELSE IF r.path = logoutURL THEN "logout"
  ELSE IF r.path = verifyURL THEN "verify"
  ELSE "next"

redirectURL(r) == Lookup(r.query, urlKeyRedirect)

\* ServeHTTP handing the request to the next handler.
ServeNext(p, r) ==
  /\ pc[p] = "idle"
  /\ Route(r) = "next"
  /\ ret' = [NoRet EXCEPT !.at = now, !.op = "next", !.req = r, !.next = 1]
  /\ UNCHANGED <<store, session, now, pc, local, handshakes>>

\* The login branch storing the whole query as the pending target.
ServeLoginStoresQuery(p, r) ==
  /\ pc[p] = "idle"
  /\ Route(r) = "login"
  /\ session' = IF redirectURL(r) # Empty
                 THEN Store(session, sesKeyRedirect, AsMap(r.query))
                 ELSE session
  /\ BeginAssociate(p, "login", r, endpoint, verifyURL)
  /\ UNCHANGED now

\* ServeHTTP, case loginURL.
ServeLogin(p, r) ==
  /\ pc[p] = "idle"
  /\ Route(r) = "login"
  /\ session' = IF redirectURL(r) # Empty
                 THEN Store(session, sesKeyRedirect, AsString(redirectURL(r)))
                 ELSE session
  /\ BeginAssociate(p, "login", r, endpoint, verifyURL)
  /\ UNCHANGED now

\* The logout branch deleting the pending target whatever the request holds.
ServeLogoutAlwaysClears(p, r) ==
  /\ pc[p] = "idle"
  /\ Route(r) = "logout"
  /\ session' = Delete(Delete(session, sesKeyOpenID), sesKeyRedirect)
  /\ ret' = IF redirectURL(r) # Empty
            THEN [NoRet EXCEPT !.at = now, !.op = "logout", !.req = r, !.status = 302,
                               !.location = redirectURL(r)]
            ELSE [NoRet EXCEPT !.at = now, !.op = "logout", !.req = r, !.status = 202]
  /\ UNCHANGED <<store, now, pc, local, handshakes>>

\* ServeHTTP, case logoutURL.
ServeLogout(p, r) ==
  /\ pc[p] = "idle"
  /\ Route(r) = "logout"
  /\ IF redirectURL(r) # Empty
     THEN /\ session' = Delete(Delete(session, sesKeyOpenID), sesKeyRedirect)
          /\ ret' = [NoRet EXCEPT !.at = now, !.op = "logout", !.req = r, !.status = 302,
                                  !.location = redirectURL(r)]
     ELSE /\ session' = Delete(session, sesKeyOpenID)
          /\ ret' = [NoRet EXCEPT !.at = now, !.op = "logout", !.req = r, !.status = 202]
  /\ UNCHANGED <<store, now, pc, local, handshakes>>

\* The verify branch leaving the pending target in the session.
AfterStoreKeepsTarget(r, ep, res, stored) ==
  [sess |-> stored,
   ret |-> [NoRet EXCEPT !.at = now, !.op = "verify", !.req = r, !.ep = ep,
                         !.err = res.err, !.claims = res.claims, !.status = 302,
                         !.location = IF sesKeyRedirect \in DOMAIN stored
                                      THEN stored[sesKeyRedirect].val ELSE realm]]

\* What the verify branch does once the user is stored (lines 109-115): the
\* redirect to the pending target, which is then deleted, or to the realm; the
\* type assertion on the pending target panics on a value that is no string,
\* and the handler ends there.
AfterStore(r, ep, res, stored) ==
  IF sesKeyRedirect \notin DOMAIN stored
  THEN [sess |-> stored,
        ret |-> [NoRet EXCEPT !.at = now, !.op = "verify", !.req = r, !.ep = ep,
                              !.err = res.err, !.claims = res.claims, !.status = 302,
                              !.location = realm]]
  ELSE IF stored[sesKeyRedirect].type # StringType
  THEN [sess |-> stored,
        ret |-> [NoRet EXCEPT !.at = now, !.op = "verify", !.req = r, !.ep = ep,
                              !.err = ErrPanic, !.claims = res.claims]]
  ELSE [sess |-> Delete(stored, sesKeyRedirect),
        ret |-> [NoRet EXCEPT !.at = now, !.op = "verify", !.req = r, !.ep = ep,
                              !.err = res.err, !.claims = res.claims, !.status = 302,
                              !.location = stored[sesKeyRedirect].val]]

\* The verify branch storing the user without looking at the error.
ServeVerifyNoErrCheck(p, r) ==
  /\ pc[p] = "idle"
  /\ Route(r) = "verify"
  /\ LET res == IDRes(store, r.query)
         ep == Lookup(parseHTTP(r.query), <<"op_endpoint">>)
         after == AfterStore(r, ep, res, Store(session, sesKeyOpenID, AsMap(parseHTTP(r.query))))
     IN /\ session' = after.sess
        /\ ret' = after.ret
  /\ UNCHANGED <<store, now, pc, local, handshakes>>

\* ServeHTTP, case verifyURL.
ServeVerify(p, r) ==
  /\ pc[p] = "idle"
  /\ Route(r) = "verify"
  /\ LET res == IDRes(store, r.query)
         ep == Lookup(parseHTTP(r.query), <<"op_endpoint">>)
     IN IF res.err # ErrNone
        THEN /\ ret' = [NoRet EXCEPT !.at = now, !.op = "verify", !.req = r, !.ep = ep,
                                     !.err = res.err]
             /\ UNCHANGED session
        ELSE LET user == CHOOSE u \in res.claims : TRUE
                 after == AfterStore(r, ep, res, Store(session, sesKeyOpenID, AsMap(user)))
             IN /\ session' = after.sess
                /\ ret' = after.ret
  /\ UNCHANGED <<store, now, pc, local, handshakes>>

\* ------------------------------------------------------------------ inputs
\* Answers of the provider to the associate request.
Line(k, v) == k \o <<Colon>> \o v \o <<NL>>

HandshakeLines(handle, macKey, expiresIn) ==
  << Line(<<"assoc_handle">>, handle), Line(<<"mac_key">>, macKey),
     Line(<<"assoc_type">>, hmacSHA256), Line(<<"expires_in">>, expiresIn) >>

RECURSIVE Concat(_)
Concat(ls) == IF ls = <<>> THEN Empty ELSE Head(ls) \o Concat(Tail(ls))

Without(ls, i) == SubSeq(ls, 1, i - 1) \o SubSeq(ls, i + 1, Len(ls))

Lines1 == HandshakeLines(<<"AH1">>, <<"a2V5MQ==">>, <<"1">>)
Lines2 == HandshakeLines(<<"AH2">>, <<"a2V5Mg==">>, <<"2">>)

Answer(status, body) == [err |-> FALSE, readErr |-> FALSE, status |-> status, body |-> body]
TransportError == [err |-> TRUE, readErr |-> FALSE, status |-> 0, body |-> Empty]
ReadError == [err |-> FALSE, readErr |-> TRUE, status |-> 200, body |-> Empty]

GoodAnswers == {Answer(200, Concat(Lines1)), Answer(200, Concat(Lines2))}

\* A required field left out, one at a time.
MissingFieldAnswers == {Answer(200, Concat(Without(Lines1, i))) : i \in 1..4}

MalformedAnswers ==
  { Answer(200, <<"<html>", NL>>),
    Answer(200, Concat(HandshakeLines(<<"AH1">>, <<"!!">>, <<"1">>))),
    Answer(200, Concat(HandshakeLines(<<"AH1">>, <<"a2V5MQ==">>, <<"soon">>))) }

FailedAnswers == {Answer(500, Concat(Lines1)), Answer(404, <<"not found", NL>>)}

Responses == GoodAnswers \cup {TransportError}

\* Answers with each expires_in that strconv.Atoi takes, and one beyond int.
ExpiresInTexts ==
  { <<"0">>, <<"1">>, <<"2">>, <<"-1">>, <<"36028797018963969">>,
    <<"9223372036854775807">>, <<"9223372036854775808">> }

ExpiryAnswers ==
  {Answer(200, Concat(HandshakeLines(<<"AH1">>, <<"a2V5MQ==">>, t))) : t \in ExpiresInTexts}

\* The answers the verification runs start from: the good ones, and one that
\* names no assoc_type.
VerifyAnswers == GoodAnswers \cup {Answer(200, Concat(Without(Lines2, 3)))}

AllResponses ==
  GoodAnswers \cup MissingFieldAnswers \cup MalformedAnswers \cup FailedAnswers
  \cup {TransportError, ReadError}

\* Callbacks: what a provider holding the key signs, and what reaches the
\* consumer after one field was changed or removed on the way.
Assertion(fields, key) ==
  fields @@ (<<"sig">> :>
               <<HMAC(key, KeyValueForm(fields, Split(Lookup(fields, <<"signed">>)), 1))>>)

SetField(user, f, v) == [k \in DOMAIN user \cup {f} |-> IF k = f THEN v ELSE user[k]]
DropField(user, f) == [k \in DOMAIN user \ {f} |-> user[k]]

Get(query) == [path |-> verifyURL, method |-> "GET", hasSession |-> TRUE, query |-> query]

\* What a provider signs for a user who logged in at ep.
Alice(ep) ==
  (<<"op_endpoint">> :> ep) @@ (<<"identity">> :> <<"alice">>)
  @@ (<<"signed">> :> <<"op_endpoint", ",", "identity", ",", "signed">>)

\* An assertion with a profile field whose value holds raw line breaks.
Odd(ep) ==
  (<<"op_endpoint">> :> ep)
  @@ (<<"signed">> :> <<"signed", ",", "fullname">>)
  @@ (<<"fullname">> :> <<NL, "fullname", NL, "fullname", Colon, Colon>>)

\* The keys a callback may be signed with: the two the provider hands out.
Keys == {<<"key1">>, <<"key2">>}

TamperFields == {<<"op_endpoint">>, <<"identity">>, <<"signed">>, <<"fullname">>}

TamperValues ==
  { Empty, OP2, <<"garbage">>, <<"mallory">>,
    <<"signed", ",", "fullname", NL, "fullname", Colon>> }

Assertions ==
  {Assertion(Alice(OP1), k) : k \in Keys} \cup {Assertion(Odd(OP1), <<"key1">>)}

Callbacks ==
  Assertions
  \cup {SetField(c, f, v) : c \in Assertions, f \in TamperFields, v \in TamperValues}
  \cup {DropField(c, f) : c \in Assertions, f \in TamperFields \cup {<<"sig">>}}

VerifyQueries == {encodeHTTP(c) : c \in Callbacks}

\* The requests of the small system: each route, with and without the redirect
\* parameter, and a few callbacks.
WithRedirect(q) == q @@ (urlKeyRedirect :> <<"/", "home">>)

FewCallbacks ==
  { Assertion(Alice(OP1), <<"key1">>), Assertion(Alice(OP1), <<"key2">>),
    SetField(Assertion(Alice(OP1), <<"key1">>), <<"identity">>, <<"mallory">>),
    DropField(Assertion(Alice(OP1), <<"key1">>), <<"sig">>) }

Requests ==
  { [Get(NoQuery) EXCEPT !.path = loginURL],
    [Get(WithRedirect(NoQuery)) EXCEPT !.path = loginURL],
    [Get(NoQuery) EXCEPT !.path = logoutURL],
    [Get(WithRedirect(NoQuery)) EXCEPT !.path = logoutURL],
    [Get(NoQuery) EXCEPT !.path = prefix \o <<"/other">>],
    [Get(NoQuery) EXCEPT !.path = <<"/elsewhere">>],
    [Get(NoQuery) EXCEPT !.path = loginURL, !.method = "POST"],
    [Get(NoQuery) EXCEPT !.path = loginURL, !.hasSession = FALSE] }
  \cup {Get(encodeHTTP(c)) : c \in FewCallbacks}

\* The callbackPrefix arguments of CheckIDSetup: what the handler passes, a
\* relative path, and an absolute URL.
ReturnURLs ==
  { verifyURL, <<"verify">>,
    <<"https", ":", "/", "/", "rp.example", "/", "verify">> }

\* A provider that hands out three handles, two of them with the same key.
PairingHandles == {<<"AH1">>, <<"AH2">>, <<"AH3">>}

KeyOf(handle) == IF handle = <<"AH2">> THEN <<"key2">> ELSE <<"key1">>
MacKeyOf(handle) == IF handle = <<"AH2">> THEN <<"a2V5Mg==">> ELSE <<"a2V5MQ==">>

PairingAnswers ==
  {Answer(200, Concat(HandshakeLines(h, MacKeyOf(h), <<"1">>))) : h \in PairingHandles}

\* What that provider signs for a user who logged in under the handle.
Signed(ep, handle) ==
  Assertion((<<"op_endpoint">> :> ep) @@ (<<"identity">> :> <<"alice">>)
            @@ (<<"assoc_handle">> :> handle)
            @@ (<<"signed">> :> <<"op_endpoint", ",", "identity", ",", "assoc_handle", ",",
                                  "signed">>),
            KeyOf(handle))

PairingCallbacks == {Signed(OP1, h) : h \in PairingHandles}

\* Requests of one session: logins with two targets and with none, logouts
\* with and without a target, and callbacks the provider signed or did not.
RedirectTo(target) == (urlKeyRedirect :> target)

SessionRequests ==
  { [Get(NoQuery) EXCEPT !.path = loginURL],
    [Get(RedirectTo(<<"/", "home">>)) EXCEPT !.path = loginURL],
    [Get(RedirectTo(<<"/", "other">>)) EXCEPT !.path = loginURL],
    [Get(NoQuery) EXCEPT !.path = logoutURL],
    [Get(RedirectTo(<<"/", "bye">>)) EXCEPT !.path = logoutURL] }
  \cup {Get(encodeHTTP(c)) : c \in FewCallbacks}

\* Requests for the dispatch: every path, method, session and query of these.
DispatchPaths ==
  { loginURL, logoutURL, verifyURL, prefix, prefix \o <<"/other">>,
    prefix \o <<"x", "/login">>, <<"/elsewhere">>, <<"/elsewhere", "/login">> }

\* Every path under every method, with and without a session; and the three
\* paths of the handler with the redirect parameter or a callback.
DispatchRequests ==
  { [path |-> pa, method |-> m, hasSession |-> hs, query |-> NoQuery] :
      pa \in DispatchPaths, m \in {"GET", "HEAD", "POST"}, hs \in BOOLEAN }
  \cup { [Get(WithRedirect(NoQuery)) EXCEPT !.path = pa] : pa \in {loginURL, logoutURL} }
  \cup { Get(encodeHTTP(Assertion(Alice(OP1), k))) : k \in Keys }

\* ------------------------------------------------------------------ specifications
\* The handler with its session, and direct calls of the library beside it.
Next ==
  \/ Tick
  \/ \E p \in Procs, r \in Requests : ServeNext(p, r)
  \/ \E p \in Procs, r \in Requests : ServeLogin(p, r)
  \/ \E p \in Procs, r \in Requests : ServeLogout(p, r)
  \/ \E p \in Procs, r \in Requests : ServeVerify(p, r)
  \/ \E p \in Procs, resp \in Responses : HttpGetReturns(p, resp)

Spec == Init /\ [][Next]_vars

\* The library under every callback of Callbacks.
NextVerify ==
  \/ Tick
  \/ \E e \in {OP1, OP2} : CallCheckIDSetup(1, e, verifyURL)
  \/ \E resp \in VerifyAnswers : HttpGetReturns(1, resp)
  \/ \E q \in VerifyQueries : CallIDRes(1, q)

SpecVerify == Init /\ [][NextVerify]_vars

\* The library under every answer of AllResponses.
NextAssoc ==
  \/ Tick
  \/ \E e \in {OP1, OP2} : CallCheckIDSetup(1, e, verifyURL)
  \/ \E resp \in AllResponses : HttpGetReturns(1, resp)

SpecAssoc == Init /\ [][NextAssoc]_vars

\* The library under every callbackPrefix of ReturnURLs.
NextURL ==
  \/ Tick
  \/ \E e \in {OP1, OP2}, cb \in ReturnURLs : CallCheckIDSetup(1, e, cb)
  \/ \E resp \in Responses : HttpGetReturns(1, resp)

SpecURL == Init /\ [][NextURL]_vars

\* The library with the steps of the store's lock, on every goroutine, at one
\* moment of the clock.
LockCallbacks == {Assertion(Alice(OP1), <<"key1">>)}

NextLock ==
  \/ \E p \in Procs, e \in {OP1, OP2} : GetLocks(p, e, verifyURL)
  \/ \E p \in Procs : GetReturns(p)
  \/ \E p \in Procs, resp \in Responses : HttpGetDone(p, resp)
  \/ \E p \in Procs : SetLocks(p)
  \/ \E p \in Procs : SetReturns(p)
  \/ \E p \in Procs, c \in LockCallbacks : IDResLocked(p, encodeHTTP(c))

SpecLock == Init /\ [][NextLock]_vars

\* The library under every answer of ExpiryAnswers.
NextExpiry ==
  \/ Tick
  \/ \E e \in {OP1, OP2} : CallCheckIDSetup(1, e, verifyURL)
  \/ \E resp \in ExpiryAnswers : HttpGetReturns(1, resp)

SpecExpiry == Init /\ [][NextExpiry]_vars

\* The handler under every request of DispatchRequests, one goroutine.
NextDispatch ==
  \/ \E r \in DispatchRequests : ServeNext(1, r)
  \/ \E r \in DispatchRequests : ServeLogin(1, r)
  \/ \E r \in DispatchRequests : ServeLogout(1, r)
  \/ \E r \in DispatchRequests : ServeVerify(1, r)
  \/ \E resp \in Responses : HttpGetReturns(1, resp)

SpecDispatch == Init /\ [][NextDispatch]_vars

\* The library on every goroutine, under the answers and callbacks of the
\* provider with three handles.
NextPairing ==
  \/ Tick
  \/ \E p \in Procs : CallCheckIDSetup(p, OP1, verifyURL)
  \/ \E p \in Procs, resp \in PairingAnswers : HttpGetReturns(p, resp)
  \/ \E p \in Procs, c \in PairingCallbacks : CallIDRes(p, encodeHTTP(c))

SpecPairing == Init /\ [][NextPairing]_vars

\* The handler under the requests of one session, one goroutine.
NextSession ==
  \/ Tick
  \/ \E r \in SessionRequests : ServeLogin(1, r)
  \/ \E r \in SessionRequests : ServeLogout(1, r)
  \/ \E r \in SessionRequests : ServeVerify(1, r)
  \/ \E resp \in Responses : HttpGetReturns(1, resp)

SpecSession == Init /\ [][NextSession]_vars

\* The handler under fair scheduling: the clock runs on and every goroutine
\* that can serve a request does. The return of http.Get is the provider's
\* move: http.Get is called on the default client, which sets no deadline, so
\* nothing makes it come back.
ServeSome(p) ==
  \E r \in Requests :
    ServeNext(p, r) \/ ServeLogin(p, r) \/ ServeLogout(p, r) \/ ServeVerify(p, r)

SpecLive ==
  Init /\ [][Next]_vars /\ WF_vars(Tick) /\ \A p \in Procs : WF_vars(ServeSome(p))

\* ------------------------------------------------------------------ claims: verification
\* The kind of error, in the words of the design, of each Go error.
ErrorKind(err) ==
  CASE err = ErrAssociate -> "HandshakeError"
    [] err = ErrNoAssociation -> "UnknownAssociationError"
    [] err = ErrVerify -> "VerificationError"
    [] err = ErrSign -> "VerificationError"
    [] OTHER -> "none"

\* The names listed in the callback's signed field.
Listed(u) ==
  LET names == Split(Lookup(u, <<"signed">>)) IN {names[i] : i \in 1..Len(names)}

\* The signature the callback should carry under the association stored for
\* its op_endpoint.
SigMatches(st, u) ==
  LET e == Lookup(u, <<"op_endpoint">>)
  IN /\ e \in DOMAIN st
     /\ Lookup(u, <<"sig">>)
          = <<HMAC(st[e].Secret, KeyValueForm(u, Split(Lookup(u, <<"signed">>)), 1))>>

\* A callback the consumer accepts.
ValidCallback(st, u) ==
  /\ SigMatches(st, u)
  /\ st[Lookup(u, <<"op_endpoint">>)].Type = hmacSHA256

\* u is c with the value of field f changed, and nothing else.
ChangedIn(u, c, f) ==
  /\ DOMAIN u = DOMAIN c
  /\ f \in DOMAIN c
  /\ u[f] # c[f]
  /\ \A k \in DOMAIN c \ {f} : u[k] = c[k]

IsVerify == ret.op \in {"IDRes", "verify"}
Fields == parseHTTP(ret.req.query)

\* C1 as stated: IDRes returns Claims only under a matching signature, and a
\* valid callback with the value of any one signed field changed (sig kept) is
\* refused.
C1_AnySignedField ==
  IsVerify =>
    /\ ret.claims # {} => SigMatches(store, Fields)
    /\ \A c \in Assertions : \A f \in Listed(c) :
         ValidCallback(store, c) /\ ChangedIn(Fields, c, f)
           => ret.claims = {} /\ ret.err # ErrNone

\* C1 as amended: IDRes returns Claims only under a matching signature, and a
\* valid callback with the value of any one signed field other than "signed"
\* itself changed (sig kept) is refused: for want of an association when the
\* changed op_endpoint has none, by the signature check otherwise.
C1_TamperDetected ==
  IsVerify =>
    /\ ret.claims # {} => SigMatches(store, Fields)
    /\ \A c \in Assertions : \A f \in Listed(c) \ {<<"signed">>} :
         ValidCallback(store, c) /\ ChangedIn(Fields, c, f)
           => /\ ret.claims = {}
              /\ ErrorKind(ret.err)
                   = IF Lookup(Fields, <<"op_endpoint">>) \in DOMAIN store
                     THEN "VerificationError" ELSE "UnknownAssociationError"

\* A valid callback with a changed signed identity was refused.
C1_Witness ==
  /\ IsVerify
  /\ ret.err = ErrVerify
  /\ \E c \in Assertions :
       ValidCallback(store, c) /\ ChangedIn(Fields, c, <<"identity">>)

\* C3 as stated: a callback whose op_endpoint has an association that expired
\* before the call is refused like one without an association.
C3_ExpiredRefused ==
  (IsVerify /\ ret.ep \in DOMAIN store /\ store[ret.ep].Expires < ret.at)
    => ret.claims = {} /\ ret.err = ErrNoAssociation

\* C8: a callback whose op_endpoint (absent, empty, or any text) has no
\* association stored is refused with the no-association error, returns no
\* Claims and leaves the store as it was.
C8_UnknownProvider ==
  [][(ret'.op = "IDRes" /\ ret' # ret
        /\ Lookup(parseHTTP(ret'.req.query), <<"op_endpoint">>) \notin DOMAIN store)
       => ret'.claims = {} /\ ret'.err = ErrNoAssociation /\ store' = store]_vars

\* A callback without op_endpoint met a store that holds an association.
C8_Witness ==
  /\ ret.op = "IDRes"
  /\ <<"op_endpoint">> \notin DOMAIN Fields
  /\ ret.err = ErrNoAssociation
  /\ OP1 \in DOMAIN store

RequiredCallbackFields == {<<"op_endpoint">>, <<"signed">>, <<"sig">>}

\* C9 as stated: a callback without op_endpoint, signed or sig is refused as
\* malformed, whatever the store holds.
C9_MalformedRefused ==
  (IsVerify /\ ~(RequiredCallbackFields \subseteq DOMAIN Fields) /\ store # <<>>)
    => ret.claims = {} /\ ErrorKind(ret.err) = "MalformedCallbackError"

\* ------------------------------------------------------------------ claims: association
IsAssociate == ret.op \in {"CheckIDSetup", "login"}

\* The step in which some goroutine enters, or comes back from, http.Get.
EntersHttp(p) == pc[p] = "idle" /\ pc'[p] = "http"
LeavesHttp(p) == pc[p] = "http" /\ pc'[p] = "idle"

\* C2 as stated: associate never takes from the store an association that
\* expired before the call.
C2_ExpiredNotReused ==
  (IsAssociate /\ ~ret.fresh) => \A a \in ret.assoc : a.Expires >= ret.at

RequiredHandshakeFields ==
  {<<"assoc_handle">>, <<"mac_key">>, <<"assoc_type">>, <<"expires_in">>}

\* The body lacks a required field or carries a malformed one.
MalformedBody(body) ==
  LET kv == parseKeyValue(body)
  IN \/ kv.err
     \/ ~(RequiredHandshakeFields \subseteq DOMAIN kv.values)
     \/ DecodeString(Lookup(kv.values, <<"mac_key">>)).err
     \/ Atoi(Lookup(kv.values, <<"expires_in">>)).err

\* C4 as stated: a handshake answered by a body that lacks a required field
\* or carries a malformed one fails and leaves the store as it was.
C4_MalformedBodyFails ==
  [][((\E p \in Procs : LeavesHttp(p))
        /\ \E resp \in ret'.resp : ~resp.err /\ ~resp.readErr /\ MalformedBody(resp.body))
       => ret'.err = ErrAssociate /\ ret'.assoc = {} /\ store' = store]_vars

\* C5 as stated: a handshake answered by a transport error or by a status
\* outside 2xx fails and leaves the store as it was, whatever the body holds.
C5_TransportFailureFails ==
  [][((\E p \in Procs : LeavesHttp(p))
        /\ \E resp \in ret'.resp : resp.err \/ resp.readErr \/ resp.status \notin 200..299)
       => ret'.err = ErrAssociate /\ ret'.assoc = {} /\ store' = store]_vars

\* C6: while an unexpired association is stored for an endpoint, no call for
\* that endpoint enters http.Get, the number of handshakes grows only when a
\* goroutine enters http.Get, and a call that finds the entry returns it and
\* leaves the store as it was.
C6_CacheReuse ==
  [][/\ \A p \in Procs :
          EntersHttp(p)
            => ~(local'[p].ep \in DOMAIN store /\ now <= store[local'[p].ep].Expires)
     /\ handshakes' # handshakes
          => handshakes' = handshakes + 1 /\ \E p \in Procs : EntersHttp(p)
     /\ (ret' # ret /\ ret'.op \in {"CheckIDSetup", "login"} /\ pc' = pc
          /\ ret'.ep \in DOMAIN store /\ now <= store[ret'.ep].Expires)
          => /\ ret'.assoc = {store[ret'.ep]}
             /\ ~ret'.fresh
             /\ store' = store
             /\ handshakes' = handshakes]_vars

\* A second call within the window came back with the stored association
\* after one handshake in all.
C6_Witness ==
  /\ ret.op = "CheckIDSetup" /\ ~ret.fresh /\ ret.err = ErrNone
  /\ handshakes = 1
  /\ ret.ep \in DOMAIN store
  /\ ret.at <= store[ret.ep].Expires
  /\ ret.assoc = {store[ret.ep]}

\* What the two good answers grant.
Granted(resp) ==
  IF resp = Answer(200, Concat(Lines1))
  THEN [Handle |-> <<"AH1">>, Secret |-> <<"key1">>, ExpiresIn |-> 1]
  ELSE [Handle |-> <<"AH2">>, Secret |-> <<"key2">>, ExpiresIn |-> 2]

\* C7: every goroutine that comes back from http.Get with a good answer
\* returns the association of its own handshake, and the store then holds that
\* association for the endpoint (whatever another handshake stored before) and
\* the entries of the other endpoints as they were.
C7_LastWriteWins ==
  [][\A p \in Procs :
       (LeavesHttp(p) /\ ret'.resp \subseteq GoodAnswers)
         => \A resp \in ret'.resp :
              LET ep == local[p].ep
                  a == [Endpoint |-> ep, Handle |-> Granted(resp).Handle,
                        Secret |-> Granted(resp).Secret, Type |-> hmacSHA256,
                        Expires |-> now + Granted(resp).ExpiresIn]
              IN /\ ret'.assoc = {a}
                 /\ ret'.err = ErrNone
                 /\ DOMAIN store' = DOMAIN store \cup {ep}
                 /\ store'[ep] = a
                 /\ \A k \in DOMAIN store \ {ep} : store'[k] = store[k]]_vars

\* Two calls for one endpoint both missed: one has stored its association,
\* the other is still inside http.Get.
C7_Witness ==
  /\ ret.fresh /\ ret.err = ErrNone
  /\ \E p \in Procs :
       pc[p] = "http" /\ local[p].ep = ret.ep /\ local[p].ep \in DOMAIN store

\* ------------------------------------------------------------------ claims: session
UserEntry(s) == GetUser(s).user

\* C10: the user entry of the session is set only by a verify request whose
\* IDRes returned Claims (those Claims, under a matching signature) and
\* removed only by a logout request; every other request, a login whose
\* handshake fails and a callback that IDRes refuses among them, leaves it as
\* it was.
C10_OnlyVerifiedSetsUser ==
  [][UserEntry(session') # UserEntry(session)
       => IF UserEntry(session') = {} THEN ret'.op = "logout"
          ELSE /\ ret'.op = "verify"
               /\ ret'.err = ErrNone
               /\ ret'.claims = UserEntry(session')
               /\ \A u \in ret'.claims : u = parseHTTP(ret'.req.query) /\ ValidCallback(store, u)]_vars

\* A refused callback met a session that an earlier callback had authenticated.
C10_Witness ==
  /\ ret.op = "verify"
  /\ ret.err # ErrNone
  /\ UserEntry(session) # {}

\* ------------------------------------------------------------------ claims: handshake
\* C11 as stated: every associate call that went into the network call comes
\* back from it, also when the provider never answers.
C11_AssociateReturns == \A p \in Procs : (pc[p] = "http") ~> (pc[p] = "idle")

\* ------------------------------------------------------------------ claims: redirect URL
\* The key=value pairs of the query of a URL, as they stand in the URL.
QueryOf(url) == SubSeq(url, IndexOf(url, "?") + 1, Len(url))

QueryPairs(url) ==
  LET ps == SplitFrom(QueryOf(url), "&", 1, Empty, <<>>) IN {ps[i] : i \in 1..Len(ps)}

\* The query of url carries openid.<name> with the URL-encoding of value.
Carries(url, name, value) ==
  QueryEscape(<<OpenIDPrefix>> \o name) \o <<"=">> \o QueryEscape(value) \in QueryPairs(url)

\* url is P, "?" and a query that carries the mode, the handle and returnTo.
IsAuthURL(url, P, H, returnTo) ==
  /\ IndexOf(url, "?") = Len(P) + 1
  /\ SubSeq(url, 1, Len(P)) = P
  /\ Carries(url, <<"mode">>, <<"checkid_setup">>)
  /\ Carries(url, <<"assoc_handle">>, H)
  /\ Carries(url, <<"return_to">>, returnTo)

\* C12 as stated: CheckIDSetup(P, R) with an association of handle H returns
\* P, "?" and a query carrying mode=checkid_setup, assoc_handle=H and
\* return_to = the URL-encoding of exactly R; when associate fails it returns
\* the handshake error and no URL.
C12_ReturnToIsR ==
  IsAssociate =>
    IF ret.assoc = {} THEN ErrorKind(ret.err) = "HandshakeError" /\ ret.url = Empty
    ELSE /\ ret.err = ErrNone
         /\ \A a \in ret.assoc : IsAuthURL(ret.url, ret.ep, a.Handle, ret.cb)

\* C12 as amended: the same with return_to = the URL-encoding of the realm,
\* "/" and R.
C12_ReturnToUnderRealm ==
  IsAssociate =>
    IF ret.assoc = {} THEN ErrorKind(ret.err) = "HandshakeError" /\ ret.url = Empty
    ELSE /\ ret.err = ErrNone
         /\ \A a \in ret.assoc :
              IsAuthURL(ret.url, ret.ep, a.Handle, realm \o <<"/">> \o ret.cb)

\* A URL was built from the cache for an absolute callback URL.
C12_Witness ==
  /\ ret.op = "CheckIDSetup" /\ ret.err = ErrNone /\ ~ret.fresh
  /\ ret.cb = <<"https", ":", "/", "/", "rp.example", "/", "verify">>
  /\ \E a \in ret.assoc : a.Handle = <<"AH1">> /\ Carries(ret.url, <<"assoc_handle">>, <<"AH1">>)

\* ------------------------------------------------------------------ claims: lock
\* Every goroutine but q is outside get and set: idle, inside http.Get, or
\* between http.Get and set.
OthersOutsideStore(q) == \A r \in Procs \ {q} : pc[r] \in {"idle", "http", "built"}

\* C13: a goroutine inside http.Get holds no lock of the store (get has
\* released the read lock, set has not been called), the write lock of set
\* excludes every other holder, and while the other goroutines are inside
\* http.Get, or anywhere else outside get and set, a goroutine can go on at
\* once: an idle one with IDRes or with the get of any endpoint, one that has
\* built its Association with set.
C13_NoLockInsideHttp ==
  /\ \A p \in Procs : pc[p] \in {"http", "built", "idle"} => local[p].lock = "none"
  /\ \A p, q \in Procs : (p # q /\ local[p].lock = "write") => local[q].lock = "none"
  /\ \A q \in Procs :
       OthersOutsideStore(q) =>
         /\ pc[q] = "idle" =>
              /\ \A c \in LockCallbacks : ENABLED IDResLocked(q, encodeHTTP(c))
              /\ \A e \in {OP1, OP2} :
                   (handshakes < MaxHandshakes \/ e \in DOMAIN store)
                     => ENABLED GetLocks(q, e, verifyURL)
         /\ pc[q] = "built" => ENABLED SetLocks(q)

\* One goroutine is inside http.Get for one endpoint while the other has just
\* stored the association of another endpoint.
C13_Witness ==
  /\ ret.fresh /\ ret.err = ErrNone /\ ret.ep = OP2 /\ OP2 \in DOMAIN store
  /\ \E p \in Procs : pc[p] = "http" /\ local[p].ep = OP1 /\ OP1 \notin DOMAIN store

\* ------------------------------------------------------------------ claims: expiry
\* The expires_in of an answer, as strconv.Atoi reads it.
ExpiresInOf(resp) == Atoi(Lookup(parseKeyValue(resp.body).values, <<"expires_in">>)).n

\* C14 as stated: the association of a handshake that was accepted expires
\* exactly expires_in seconds after the handshake completed (the number of
\* seconds added is the number the provider sent, whatever its size), and never
\* before it was created.
C14_ExpiryExact ==
  (IsAssociate /\ ret.fresh) =>
    \A a \in ret.assoc : \A resp \in ret.resp :
      /\ a.Expires >= ret.at
      /\ Word(a.Expires - ret.at) = ExpiresInOf(resp)

\* ------------------------------------------------------------------ claims: store frame
\* Goroutine p comes back from associate in this step.
ReturnsFromAssociate(p) == pc[p] # "idle" /\ pc'[p] = "idle"

\* C15: the store changes only in the step in which a goroutine comes back
\* from a successful handshake, and then only in the entry of that handshake's
\* endpoint, which becomes the Association the call returns (replacing any
\* earlier entry); the other entries stay as they were, entry by entry. A call
\* of IDRes, and a call of CheckIDSetup served from the cache, leave the store
\* as it was.
C15_StoreFrame ==
  [][/\ store' # store
          => \E p \in Procs :
               /\ ReturnsFromAssociate(p)
               /\ ret'.fresh /\ ret'.err = ErrNone
               /\ ret'.ep = local[p].ep
               /\ DOMAIN store' = DOMAIN store \cup {ret'.ep}
               /\ ret'.assoc = {store'[ret'.ep]}
               /\ \A k \in DOMAIN store \ {ret'.ep} : store'[k] = store[k]
     /\ (ret' # ret /\ ret'.op = "IDRes") => store' = store
     /\ (ret' # ret /\ ret'.op = "CheckIDSetup" /\ ~ret'.fresh) => store' = store
     /\ (ret' # ret /\ ret'.op = "CheckIDSetup" /\ ret'.err # ErrNone) => store' = store]_vars

\* A handshake has stored the entry of its endpoint beside the entry of
\* another endpoint, which holds another association.
C15_Witness ==
  /\ ret.op = "CheckIDSetup" /\ ret.fresh /\ ret.err = ErrNone
  /\ ret.ep = OP2
  /\ {OP1, OP2} \subseteq DOMAIN store
  /\ ret.assoc = {store[OP2]}
  /\ store[OP1].Handle # store[OP2].Handle

\* ------------------------------------------------------------------ claims: dispatch
\* The requests the handler is to pass on.
PassThroughCase(r) ==
  \/ ~HasPrefix(r.path, prefix)
  \/ r.method \notin {"GET", "HEAD"}
  \/ ~r.hasSession
  \/ r.path \notin {loginURL, logoutURL, verifyURL}

\* The branch of a request that is not to be passed on.
BranchOf(r) ==
  CASE r.path = loginURL -> "login"
    [] r.path = logoutURL -> "logout"
    [] OTHER -> "verify"

\* C16: dispatch has the four outcomes login, logout, verify and pass-through.
\* The branch of a request is the next handler exactly when the request is one
\* to pass on (path without the prefix, method neither GET nor HEAD, no
\* session, or none of the three paths), and the branch of its path otherwise.
\* A call that went to the next handler was for a request to pass on, called
\* the next handler once and left session and store as they were; a login,
\* logout or verify is for a request not to pass on and does not call the next
\* handler.
C16_Dispatch ==
  [][/\ \A r \in DispatchRequests :
          Route(r) = (IF PassThroughCase(r) THEN "next" ELSE BranchOf(r))
     /\ ret' # ret =>
          /\ ret'.op \in {"next", "login", "logout", "verify"}
          /\ ret'.op = "next" =>
               /\ PassThroughCase(ret'.req)
               /\ ret'.next = 1
               /\ session' = session /\ store' = store /\ pc' = pc
          /\ ret'.op # "next" => ret'.next = 0
          /\ (ret'.op \in {"logout", "verify"} \/ (ret'.op = "login" /\ ~ret'.fresh)) =>
               ~PassThroughCase(ret'.req) /\ BranchOf(ret'.req) = ret'.op
     /\ EntersHttp(1) =>
          \A r \in DispatchRequests :
            ServeLogin(1, r) => ~PassThroughCase(r) /\ BranchOf(r) = "login"]_vars

\* A POST to the login path of an authenticated session with a pending
\* redirect was passed on.
C16_Witness ==
  /\ ret.op = "next" /\ ret.next = 1
  /\ ret.req.path = loginURL /\ ret.req.method = "POST" /\ ret.req.hasSession
  /\ sesKeyOpenID \in DOMAIN session
  /\ sesKeyRedirect \in DOMAIN session
  /\ store # <<>>

\* ------------------------------------------------------------------ claims: pairing
\* The callback of the call that returned last is what the provider signs
\* under handle h for the endpoint ep.
CorrectlySigned(ep, h) == Fields = Signed(ep, h)

Pending(s) == IF sesKeyRedirect \in DOMAIN s THEN {s[sesKeyRedirect].val} ELSE {}

\* A verify request was answered in this step, with or without success.
VerifyDone == ret' # ret /\ ret'.op = "verify"

\* What C18 says of login and verify: a login with a redirect parameter makes
\* it the pending target; a successful verify redirects to the pending target
\* and deletes it, or redirects to the realm when there is none; a failed
\* verify leaves the pending target as it was.
LoginStoresVerifyConsumes ==
  /\ \A r \in SessionRequests :
       (ServeLogin(1, r) /\ redirectURL(r) # Empty) => Pending(session') = {redirectURL(r)}
  /\ (VerifyDone /\ ret'.err = ErrNone) =>
       /\ ret'.status = 302
       /\ ret'.location = (IF Pending(session) = {} THEN realm
                           ELSE CHOOSE t \in Pending(session) : TRUE)
       /\ Pending(session') = {}
  /\ (VerifyDone /\ ret'.err # ErrNone) => session' = session

\* The pending target was set by a login with a redirect parameter, or deleted
\* by a successful verify.
SetByLoginOrConsumed ==
  \/ \E r \in SessionRequests : ServeLogin(1, r) /\ redirectURL(r) # Empty
  \/ VerifyDone /\ ret'.err = ErrNone /\ Pending(session') = {}

\* C18 as stated: the target of a login is pending until the next successful
\* verify, which redirects to the most recently stored target and deletes it
\* (nothing but a login with a redirect parameter and a successful verify
\* changes the pending target); a successful verify with none pending
\* redirects to the realm; a failed verify changes nothing.
C18_PendingUntilVerify ==
  [][/\ LoginStoresVerifyConsumes
     /\ Pending(session') # Pending(session) => SetByLoginOrConsumed]_vars

\* C18 as amended: the same, but a logout with a redirect parameter deletes
\* the pending target as well, so the target of a login is pending until the
\* next successful verify or the next logout with a redirect parameter.
C18_PendingUntilVerifyOrLogout ==
  [][/\ LoginStoresVerifyConsumes
     /\ Pending(session') # Pending(session) =>
          \/ SetByLoginOrConsumed
          \/ /\ ret'.op = "logout" /\ redirectURL(ret'.req) # Empty
             /\ Pending(session') = {}]_vars

\* A successful verify has redirected to the second of two targets and left
\* none pending.
C18_Witness ==
  /\ ret.op = "verify" /\ ret.err = ErrNone
  /\ ret.location = <<"/", "other">>
  /\ Pending(session) = {}
  /\ GetUser(session).ok

\* ------------------------------------------------------------------ claims: logout
\* C19: a logout leaves the session without a user, whatever it held, and
\* GetUser then reports none until a verify request succeeds (only a
\* successful verify takes the session from no user to a user); a logout
\* leaves the store as it was, and it deletes the pending redirect target when
\* the request carries a redirect parameter and leaves it as it was otherwise.
C19_LogoutEndsAuthentication ==
  [][/\ \A r \in SessionRequests :
          ServeLogout(1, r) =>
            /\ ~GetUser(session').ok
            /\ store' = store
            /\ Pending(session') = (IF redirectURL(r) # Empty THEN {} ELSE Pending(session))
     /\ (~GetUser(session).ok /\ GetUser(session').ok) =>
          /\ VerifyDone /\ ret'.err = ErrNone
          /\ GetUser(session').user = ret'.claims]_vars

\* A logout without a redirect parameter has left the session without a user,
\* and the pending target and the store in place.
C19_Witness ==
  /\ ret.op = "logout" /\ ret.status = 202
  /\ ~GetUser(session).ok
  /\ Pending(session) # {}
  /\ store # <<>>

\* ------------------------------------------------------------------ claims: session types
\* C20: the value under the redirect key is a string, the redirect parameter
\* of a login request; the value under the user key is a map from field names
\* to strings, the fields of a callback that carries the signature of the
\* provider; so neither the type assertion of the verify branch nor that of
\* GetUser panics.
C20_SessionTypes ==
  /\ sesKeyRedirect \in DOMAIN session =>
       /\ session[sesKeyRedirect].type = StringType
       /\ session[sesKeyRedirect].val \in {redirectURL(r) : r \in SessionRequests} \ {Empty}
  /\ sesKeyOpenID \in DOMAIN session =>
       /\ session[sesKeyOpenID].type = MapType
       /\ \E c \in Assertions : session[sesKeyOpenID].val = c
  /\ DOMAIN session \subseteq {sesKeyRedirect, sesKeyOpenID}
  /\ ~GetUser(session).panic
  /\ ret.err # ErrPanic

\* A verify has read the pending target of a session and stored the user.
C20_Witness ==
  /\ ret.op = "verify" /\ ret.err = ErrNone
  /\ ret.location \in {<<"/", "home">>, <<"/", "other">>}
  /\ GetUser(session).ok
  /\ GetUser(session).user = ret.claims

====
